---- MODULE Spec2Model ----
(***************************************************************************)
(* The offline layer of ExamShare.  The queue: the IndexedDB object store  *)
(* pendingSubmissions, the page-side helpers storeForOffline and           *)
(* getOfflineData, the service worker's sync listener with                 *)
(* syncPendingSubmissions that drains it, and the student's submit         *)
(* mutation.  The router: the install, activate and fetch listeners of the *)
(* service worker and its caches.  Every await of the JavaScript code is a *)
(* scheduling point: an action is the synchronous run between two awaits.  *)
(***************************************************************************)
EXTENDS Integers, Sequences, FiniteSets, TLC

\* ------------------------------------------------------------------ bounds
\* calls of storeForOffline, sync events fired, submissions made
MaxCaptures == 2
MaxTriggers == 2
MaxMutations == 2
\* calls of getOfflineData
MaxReads == 1
\* fetch events dispatched to the service worker
MaxFetches == 2
\* question papers, answer submissions and comments the server creates
MaxPapers == 1
MaxSubmissions == 2
MaxComments == 1

\* --------------------------------------------------------------- constants
SyncTag == "submit-answer"
OtherTag == "other-tag"
Tags == {SyncTag, OtherTag}
DBStores == {"pendingSubmissions", "cachedQuestionPapers", "cachedSubmissions"}
SyncEndpoint == "/api/answer-submissions"
SubmitEndpoint == "/api/submissions"
\* indexedDB.open('ExamShareOfflineDB', 1)
DBVersion == 1
SyncedTitle == "Submission Synced"

PaperIds == {7, 8}
FileNames == {"ans.pdf"}
FileContents == {"data:application/pdf;base64,AAA="}
\* the argument of submitAnswerMutation.mutate / of storeForOffline
Payloads == [questionPaperId : PaperIds, fileName : FileNames, fileContent : FileContents]
\* an argument of storeForOffline that carries an id
KeyedPayloads == {[id |-> 1] @@ d : d \in {q \in Payloads : q.questionPaperId = 8}}

\* the value of a property a JavaScript object does not have
Undefined == [undefined |-> TRUE]

Responses == {"2xx", "non2xx", "neterr"}

\* ------------------------------------------------------ the router's constants
CACHE_NAME == "examshare-cache-v1"
\* a cache left by an earlier version of the service worker
OldCacheName == "examshare-cache-v0"

\* location.origin and another origin
Location == "https://examshare.example"
OtherOrigin == "https://cdn.example"
Origins == {Location, OtherOrigin}

\* pathnames, cut into the pieces startsWith and endsWith look at
RootPath == <<"/">>
IndexPath == <<"/", "index", ".html">>
ManifestPath == <<"/", "manifest", ".json">>
AuthPath == <<"/", "auth">>
ApiPath == <<"/", "api", "/", "submissions">>
ApiJsonPath == <<"/", "api", "/", "export", ".json">>
ScriptPath == <<"/", "app", ".js">>
PagePath == <<"/", "dashboard">>

sameOrigin(path) == [origin |-> Location, pathname |-> path]

\* the shell assets without /index.html
ShellWithoutIndex == {sameOrigin(RootPath), sameOrigin(ManifestPath), sameOrigin(AuthPath)}

\* the assets the install event puts into the cache
CACHE_ASSETS == {sameOrigin(RootPath), sameOrigin(IndexPath), sameOrigin(ManifestPath),
                 sameOrigin(AuthPath)}
API_ROUTES == {<<"/", "api", "/">>}
fileExtensions == {".js", ".css", ".png", ".jpg", ".jpeg", ".svg", ".ico", ".json", ".woff",
                   ".woff2", ".ttf"}

\* the requests the pages make
Paths == {ApiPath, ApiJsonPath, ScriptPath, PagePath, AuthPath}
Modes == {"navigate", "cors"}
Requests == [url : [origin : Origins, pathname : Paths], mode : Modes]
NetOutcomes == {"ok", "fail"}

VARIABLES
  dbVersion,      \* version of ExamShareOfflineDB (0 : no database yet)
  objectStores,   \* names of the object stores of ExamShareOfflineDB
  store,          \* the records of object store pendingSubmissions
  nextId,         \* the key generator of pendingSubmissions
  inserted,       \* the keys of the records put into pendingSubmissions, in put order
  now,            \* the last reading of the clock (new Date(), Date.now())
  cap,            \* the calls of storeForOffline
  registered,     \* tags registered with the SyncManager
  localItems,     \* localStorage item "pendingSubmissions" (the localStorage storeForOffline)
  events,         \* tags of the sync events fired so far
  pass,           \* the runs of syncPendingSubmissions, one per sync event
  attempts,       \* per pass, the fetches it has made, in order
  notifications,  \* per pass, its calls of showNotification, in order
  mut,            \* the runs of submitAnswerMutation
  reads,          \* the calls of getOfflineData
  swState,        \* the life cycle of the service worker
  caches,         \* CacheStorage: per cache name, the request URLs it holds a response for
  req,            \* the fetch events the service worker handles
  schemaNamesBound,     \* routes.ts: whether the schema names it uses are bound
  questionPapers,       \* MemStorage.questionPapers
  currentPaperId,       \* MemStorage.currentPaperId
  answerSubmissions,    \* MemStorage.answerSubmissions
  currentSubmissionId,  \* MemStorage.currentSubmissionId
  comments,             \* MemStorage.comments
  currentCommentId,     \* MemStorage.currentCommentId
  userNotifications,    \* MemStorage.notifications
  currentNotificationId,\* MemStorage.currentNotificationId
  last                  \* the last request the server handled, with its response

vars == <<dbVersion, objectStores, store, nextId, inserted, now, cap, registered, localItems,
          events, pass, attempts, notifications, mut, reads, swState, caches, req,
          schemaNamesBound, questionPapers, currentPaperId, answerSubmissions,
          currentSubmissionId, comments, currentCommentId, userNotifications,
          currentNotificationId, last>>

dbVars == <<dbVersion, objectStores, store, nextId, inserted>>
captureVars == <<now, cap, registered, localItems>>
syncVars == <<events, pass, attempts, notifications>>
routerVars == <<swState, caches, req>>
storageVars == <<questionPapers, currentPaperId, answerSubmissions, currentSubmissionId,
                 comments, currentCommentId, userNotifications, currentNotificationId>>
serverVars == <<schemaNamesBound, storageVars, last>>

Captures == 1..MaxCaptures
Passes == 1..MaxTriggers
Mutations == 1..MaxMutations
Reads == 1..MaxReads
Fetches == 1..MaxFetches

\* ----------------------------------------------------------------- helpers
Ids(S) == {r.id : r \in S}

\* getAll with the records in descending key order
getAllReversed(S) ==
  CHOOSE s \in [1..Cardinality(S) -> S] :
    \A i, j \in 1..Cardinality(S) : i < j => s[i].id > s[j].id

\* IDBObjectStore.getAll(): all records in ascending key order
getAll(S) ==
  CHOOSE s \in [1..Cardinality(S) -> S] :
    \A i, j \in 1..Cardinality(S) : i < j => s[i].id < s[j].id

\* submission.data of a stored record
dataOf(rec) == IF "data" \in DOMAIN rec THEN rec.data ELSE Undefined

\* a key taken from the number of records queued, which reuses the keys of
\* deleted records
NextKeyReuse(S, n) == Cardinality(S) + 1

\* the key an add without id gets: createObjectStore(..., {autoIncrement: true});
\* the payloads of a submission carry no id, so storeForOffline always adds
NextKey(S, n) == n

\* what a reading of the clock returns when the reading before it returned t:
\* both readings may fall in the same millisecond
clockAfter(t) == {t, t + 1}

\* onupgradeneeded: the three object stores are created if they are absent
upgrade(names) == names \cup DBStores

\* the object stores after an open by a caller that sets onupgradeneeded: the
\* handler runs only when the database is older than the version asked for
openedStores(names, version) == IF version < DBVersion THEN upgrade(names) ELSE names

IdlePass == [pc |-> "idle", snapshot |-> <<>>, idx |-> 0, read |-> FALSE, seen |-> {},
             thrown |-> "none", promise |-> "pending"]
IdleCap == [pc |-> "idle", impl |-> "none", data |-> Undefined, rec |-> Undefined,
            result |-> "none", stored |-> FALSE]
IdleRead == [pc |-> "idle", storeName |-> "none", missing |-> FALSE, status |-> "none",
             result |-> <<>>]
IdleFetch == [pc |-> "idle", request |-> Undefined, policy |-> "none", net |-> "none",
              netFetches |-> 0, cacheRead |-> FALSE, put |-> "none", served |-> Undefined,
              doneBefore |-> {}]
IdleMut == [pc |-> "idle", url |-> "none", data |-> Undefined, outcome |-> "none",
            status |-> "idle", toast |-> "none"]

InitClient ==
  /\ dbVersion = 0
  /\ objectStores = {}
  /\ store = {}
  /\ nextId = 1
  /\ inserted = <<>>
  /\ now = 1
  /\ cap = [c \in Captures |-> IdleCap]
  /\ registered = {}
  /\ localItems = <<>>
  /\ events = <<>>
  /\ pass = [p \in Passes |-> IdlePass]
  /\ attempts = [p \in Passes |-> <<>>]
  /\ notifications = [p \in Passes |-> <<>>]
  /\ mut = [m \in Mutations |-> IdleMut]
  /\ reads = [r \in Reads |-> IdleRead]
  /\ swState = "parsed"
  /\ caches = [n \in {OldCacheName} |-> {sameOrigin(ScriptPath)}]
  /\ req = [f \in Fetches |-> IdleFetch]

\* no request handled yet
NoRequest == [route |-> "none", user |-> 0, id |-> 0, body |-> [none |-> TRUE], status |-> 0,
              sent |-> {}]

\* MemStorage's constructor: empty maps, counters at 1
InitStorage ==
  /\ questionPapers = {}
  /\ currentPaperId = 1
  /\ answerSubmissions = {}
  /\ currentSubmissionId = 1
  /\ comments = {}
  /\ currentCommentId = 1
  /\ userNotifications = {}
  /\ currentNotificationId = 1
  /\ last = NoRequest

\* routes.ts imports none of createInsertSchema, questionPapers, insertQuestionPaperSchema,
\* insertAnswerSubmissionSchema, insertCommentSchema: as the file stands the names are
\* unbound (FALSE)
Init == InitClient /\ InitStorage /\ schemaNamesBound = FALSE

\* the server with the names unbound, as the file stands, or bound, as a file completed
\* with the import of @shared/schema has them
InitServer == InitClient /\ InitStorage /\ schemaNamesBound \in BOOLEAN

\* ------------------------------------------------- storeForOffline (IndexedDB)
\* a record built without the file content
recordNoContent(data, ts) ==
  [questionPaperId |-> data.questionPaperId, fileName |-> data.fileName,
   fileContent |-> "", timestamp |-> ts, pendingSync |-> TRUE]

\* data.id is truthy: the data passed to storeForOffline carries an id
hasId(data) == "id" \in DOMAIN data

\* the record storeForOffline builds: {...data, timestamp, pendingSync: true}
record(data, ts) ==
  LET rec == [questionPaperId |-> data.questionPaperId, fileName |-> data.fileName,
              fileContent |-> data.fileContent, timestamp |-> ts, pendingSync |-> TRUE]
  IN IF hasId(data) THEN [id |-> data.id] @@ rec ELSE rec

withKey(rec, k) == [id |-> k] @@ rec

\* storeForOffline('pendingSubmissions', data) is called: indexedDB.open is requested
storeForOffline(c, data) ==
  /\ cap[c].pc = "idle"
  /\ \A d \in Captures : d < c => cap[d].pc # "idle"
  /\ cap' = [cap EXCEPT ![c] = [@ EXCEPT !.pc = "open", !.impl = "idb", !.data = data]]
  /\ UNCHANGED <<dbVars, now, registered, localItems, syncVars, mut, reads, routerVars, serverVars>>

\* the open request settles: onerror rejects; onupgradeneeded creates the object
\* stores of a new database; onsuccess builds the record and requests the add
storeForOfflineOpened(c, ok) ==
  /\ cap[c].pc = "open"
  /\ IF ok
     THEN LET names == openedStores(objectStores, dbVersion)
          IN /\ objectStores' = names
             /\ dbVersion' = DBVersion
             /\ IF "pendingSubmissions" \in names
                THEN \E t \in clockAfter(now) :
                       /\ cap' = [cap EXCEPT ![c] = [@ EXCEPT !.pc = "add",
                                                      !.rec = record(cap[c].data, t)]]
                       /\ now' = t
                ELSE /\ cap' = [cap EXCEPT ![c] = [@ EXCEPT !.pc = "done",
                                                    !.result = "rejected"]]
                     /\ now' = now
     ELSE /\ cap' = [cap EXCEPT ![c] = [@ EXCEPT !.pc = "done", !.result = "rejected"]]
          /\ UNCHANGED <<dbVersion, objectStores, now>>
  /\ UNCHANGED <<store, nextId, inserted, registered, localItems, syncVars, mut, reads, routerVars, serverVars>>

\* the request settles (data.id ? store.put(record) : store.add(record)): a put stores
\* the record under its own id, replacing the record stored under it, an add under the
\* next key of the generator; onsuccess registers the sync and resolves, onerror rejects
storeForOfflineAdded(c, ok, reg) ==
  /\ cap[c].pc = "add"
  /\ LET put == hasId(cap[c].data)
         key == IF put THEN cap[c].rec.id ELSE NextKey(store, nextId)
     IN IF ok /\ (put \/ key \notin Ids(store))
        THEN /\ store' = {r \in store : r.id # key} \cup {withKey(cap[c].rec, key)}
             /\ nextId' = IF ~put THEN nextId + 1
                          ELSE IF key >= nextId THEN key + 1 ELSE nextId
             /\ inserted' = IF key \in Ids(store) THEN inserted ELSE Append(inserted, key)
             /\ registered' = IF reg THEN registered \cup {SyncTag} ELSE registered
             /\ cap' = [cap EXCEPT ![c] = [@ EXCEPT !.pc = "done", !.result = "resolved",
                                           !.rec = withKey(cap[c].rec, key),
                                           !.stored = TRUE]]
        ELSE /\ cap' = [cap EXCEPT ![c] = [@ EXCEPT !.pc = "done", !.result = "rejected"]]
             /\ UNCHANGED <<store, nextId, inserted, registered>>
  /\ UNCHANGED <<dbVersion, objectStores, now, localItems, syncVars, mut, reads, routerVars, serverVars>>

\* --------------------------------------------- storeForOffline (localStorage)
\* the whole body runs without an await; a throw of getItem/parse/setItem is
\* caught and logged, and the async function resolves either way
storeForOfflineLocal(c, data, ok) ==
  /\ cap[c].pc = "idle"
  /\ \A d \in Captures : d < c => cap[d].pc # "idle"
  /\ IF ok
     THEN \E t \in clockAfter(now) :
            /\ localItems' = Append(localItems, [questionPaperId |-> data.questionPaperId,
                                                 fileName |-> data.fileName,
                                                 fileContent |-> data.fileContent,
                                                 id |-> t, pendingSync |-> TRUE])
            /\ now' = t
     ELSE UNCHANGED <<localItems, now>>
  /\ cap' = [cap EXCEPT ![c] = [@ EXCEPT !.pc = "done", !.impl = "local", !.data = data,
                                !.result = "resolved", !.stored = ok]]
  /\ UNCHANGED <<dbVars, registered, syncVars, mut, reads, routerVars, serverVars>>

\* ------------------------------------------------------------ getOfflineData
\* getOfflineData(storeName) is called: indexedDB.open is requested
getOfflineData(r, name) ==
  /\ reads[r].pc = "idle"
  /\ \A q \in Reads : q < r => reads[q].pc # "idle"
  /\ reads' = [reads EXCEPT ![r] = [@ EXCEPT !.pc = "open", !.storeName = name]]
  /\ UNCHANGED <<dbVars, captureVars, syncVars, mut, routerVars, serverVars>>

\* the open request settles.  This caller sets no onupgradeneeded: a database
\* that did not exist is created at the version asked for with no object store.
\* A store name the database does not hold resolves with []
getOfflineDataOpened(r, ok) ==
  /\ reads[r].pc = "open"
  /\ IF ok
     THEN /\ dbVersion' = DBVersion
          /\ reads' = [reads EXCEPT ![r] =
               IF reads[r].storeName \in objectStores
               THEN [@ EXCEPT !.pc = "getAll"]
               ELSE [@ EXCEPT !.pc = "done", !.missing = TRUE, !.status = "resolved",
                              !.result = <<>>]]
     ELSE /\ reads' = [reads EXCEPT ![r] = [@ EXCEPT !.pc = "done", !.status = "rejected"]]
          /\ UNCHANGED dbVersion
  /\ UNCHANGED <<objectStores, store, nextId, inserted, captureVars, syncVars, mut, routerVars, serverVars>>

\* store.getAll() settles: onsuccess resolves with the records, onerror rejects
getOfflineDataRead(r, ok) ==
  /\ reads[r].pc = "getAll"
  /\ reads' = [reads EXCEPT ![r] =
       IF ok
       THEN [@ EXCEPT !.pc = "done", !.status = "resolved", !.result = getAll(store)]
       ELSE [@ EXCEPT !.pc = "done", !.status = "rejected"]]
  /\ UNCHANGED <<dbVars, captureVars, syncVars, mut, routerVars, serverVars>>

\* ------------------------------------------------------ the service worker
\* the fetch syncPendingSubmissions makes for one record of its snapshot
attempt(p, rec, S) ==
  [id |-> rec.id, url |-> SyncEndpoint, method |-> "POST",
   body |-> dataOf(rec), queued |-> rec.id \in Ids(S), resp |-> "pending"]

\* the for loop: the next record's fetch is issued, or the pass ends
Advance(p, pr, S, atts) ==
  IF pr.idx < Len(pr.snapshot)
  THEN /\ pass' = [pass EXCEPT ![p] = [pr EXCEPT !.pc = "fetch", !.idx = pr.idx + 1]]
       /\ attempts' = [atts EXCEPT ![p] = Append(@, attempt(p, pr.snapshot[pr.idx + 1], S))]
  ELSE /\ pass' = [pass EXCEPT ![p] = [pr EXCEPT !.pc = "done", !.promise = "fulfilled"]]
       /\ attempts' = atts

\* a sync listener without the test of event.tag
syncAnyTag(tag) ==
  /\ Len(events) < MaxTriggers
  /\ events' = Append(events, tag)
  /\ pass' = [pass EXCEPT ![Len(events) + 1] = [@ EXCEPT !.pc = "open"]]
  /\ UNCHANGED <<dbVars, captureVars, attempts, notifications, mut, reads, routerVars, serverVars>>

\* the sync listener: only tag 'submit-answer' starts syncPendingSubmissions
sync(tag) ==
  /\ Len(events) < MaxTriggers
  /\ events' = Append(events, tag)
  /\ IF tag = SyncTag
     THEN pass' = [pass EXCEPT ![Len(events) + 1] = [@ EXCEPT !.pc = "open"]]
     ELSE UNCHANGED pass
  /\ UNCHANGED <<dbVars, captureVars, attempts, notifications, mut, reads, routerVars, serverVars>>

\* await openDatabase() settles; a rejection ends the pass in the outer catch.
\* getPendingSubmissions then asks for a transaction on pendingSubmissions at
\* once: without that object store db.transaction throws, which ends the pass
\* in the outer catch as well
openDatabase(p, ok) ==
  /\ pass[p].pc = "open"
  /\ IF ok
     THEN LET names == openedStores(objectStores, dbVersion)
          IN /\ objectStores' = names
             /\ dbVersion' = DBVersion
             /\ pass' = [pass EXCEPT ![p] =
                  IF "pendingSubmissions" \in names
                  THEN [@ EXCEPT !.pc = "getAll"]
                  ELSE [@ EXCEPT !.pc = "done", !.thrown = "NotFoundError",
                                 !.promise = "fulfilled"]]
     ELSE /\ pass' = [pass EXCEPT ![p] = [@ EXCEPT !.pc = "done", !.promise = "fulfilled"]]
          /\ UNCHANGED <<dbVersion, objectStores>>
  /\ UNCHANGED <<store, nextId, inserted, captureVars, events, attempts, notifications, mut, reads, routerVars, serverVars>>

\* await getPendingSubmissions(db) settles; the loop starts on the snapshot
getPendingSubmissions(p, ok) ==
  /\ pass[p].pc = "getAll"
  /\ IF ok
     THEN Advance(p, [pass[p] EXCEPT !.snapshot = getAll(store), !.idx = 0,
                                     !.read = TRUE, !.seen = Ids(store)],
                  store, attempts)
     ELSE /\ pass' = [pass EXCEPT ![p] = [@ EXCEPT !.pc = "done", !.promise = "fulfilled"]]
          /\ UNCHANGED attempts
  /\ UNCHANGED <<dbVars, captureVars, events, notifications, mut, reads, routerVars, serverVars>>

\* the attempt of pass p that has not settled: the last one it made
Current(p) == Len(attempts[p])

\* the fetch settles and removeSubmission is called whatever the response
fetchSettledNoOkCheck(p, resp) ==
  /\ pass[p].pc = "fetch"
  /\ attempts' = [attempts EXCEPT ![p][Current(p)].resp = resp]
  /\ pass' = [pass EXCEPT ![p] = [@ EXCEPT !.pc = "remove"]]
  /\ UNCHANGED <<dbVars, captureVars, events, notifications, mut, reads, routerVars, serverVars>>

\* await fetch(...) settles: response.ok leads to removeSubmission, another status
\* or a rejected fetch to the next record
fetchSettled(p, resp) ==
  /\ pass[p].pc = "fetch"
  /\ LET atts == [attempts EXCEPT ![p][Current(p)].resp = resp]
     IN IF resp = "2xx"
        THEN /\ attempts' = atts
             /\ pass' = [pass EXCEPT ![p] = [@ EXCEPT !.pc = "remove"]]
        ELSE Advance(p, pass[p], store, atts)
  /\ UNCHANGED <<dbVars, captureVars, events, notifications, mut, reads, routerVars, serverVars>>

\* a delete that removes nothing
deleteNone(S, id) == S

\* a delete that leaves the record in place, its timestamp cleared
deleteTombstone(S, id) == {IF r.id = id THEN [r EXCEPT !.timestamp = 0] ELSE r : r \in S}

\* a delete of every key up to id
deleteUpTo(S, id) == {r \in S : r.id > id}

\* IDBObjectStore.delete(id): the record with that key goes, if there is one
delete(S, id) == {r \in S : r.id # id}

\* removeSubmission without the inner try/catch: its rejection leaves the loop for the
\* outer catch
removeSubmissionUncaught(p, ok) ==
  /\ pass[p].pc = "remove"
  /\ LET id == pass[p].snapshot[pass[p].idx].id
     IN IF ok
        THEN /\ store' = delete(store, id)
             /\ notifications' = [notifications EXCEPT ![p] =
                                    Append(@, [title |-> SyncedTitle, id |-> id])]
             /\ Advance(p, pass[p], delete(store, id), attempts)
        ELSE /\ pass' = [pass EXCEPT ![p] = [@ EXCEPT !.pc = "done", !.promise = "fulfilled"]]
             /\ UNCHANGED <<store, notifications, attempts>>
  /\ UNCHANGED <<dbVersion, objectStores, nextId, inserted, captureVars, events, mut, reads, routerVars, serverVars>>

\* await removeSubmission(db, submission.id) settles: on success the record is
\* gone and the notification is shown; a rejection goes to the inner catch
removeSubmission(p, ok) ==
  /\ pass[p].pc = "remove"
  /\ LET id == pass[p].snapshot[pass[p].idx].id
         S == IF ok THEN delete(store, id) ELSE store
     IN /\ store' = S
        /\ notifications' = IF ok
                            THEN [notifications EXCEPT ![p] =
                                    Append(@, [title |-> SyncedTitle, id |-> id])]
                            ELSE notifications
        /\ Advance(p, pass[p], S, attempts)
  /\ UNCHANGED <<dbVersion, objectStores, nextId, inserted, captureVars, events, mut, reads, routerVars, serverVars>>

\* storeSubmission(data) is called: it awaits openDatabase()
storeSubmission(c, data) ==
  /\ cap[c].pc = "idle"
  /\ \A d \in Captures : d < c => cap[d].pc # "idle"
  /\ cap' = [cap EXCEPT ![c] = [@ EXCEPT !.pc = "swOpen", !.impl = "sw", !.data = data]]
  /\ UNCHANGED <<dbVars, now, registered, localItems, syncVars, mut, reads, routerVars, serverVars>>

\* await openDatabase() settles: the record {data, timestamp} is built and its
\* add requested; without the object store db.transaction throws and the
\* promise rejects
storeSubmissionOpened(c, ok) ==
  /\ cap[c].pc = "swOpen"
  /\ IF ok
     THEN LET names == openedStores(objectStores, dbVersion)
          IN /\ objectStores' = names
             /\ dbVersion' = DBVersion
             /\ IF "pendingSubmissions" \in names
                THEN \E t \in clockAfter(now) :
                       /\ cap' = [cap EXCEPT ![c] = [@ EXCEPT !.pc = "swAdd",
                                    !.rec = [data |-> cap[c].data, timestamp |-> t]]]
                       /\ now' = t
                ELSE /\ cap' = [cap EXCEPT ![c] = [@ EXCEPT !.pc = "done",
                                                    !.result = "rejected"]]
                     /\ now' = now
     ELSE /\ cap' = [cap EXCEPT ![c] = [@ EXCEPT !.pc = "done", !.result = "rejected"]]
          /\ UNCHANGED <<dbVersion, objectStores, now>>
  /\ UNCHANGED <<store, nextId, inserted, registered, localItems, syncVars, mut, reads, routerVars, serverVars>>

\* the add request settles: onsuccess resolves, onerror rejects
storeSubmissionAdded(c, ok) ==
  /\ cap[c].pc = "swAdd"
  /\ LET key == NextKey(store, nextId)
     IN IF ok /\ key \notin Ids(store)
        THEN /\ store' = store \cup {withKey(cap[c].rec, key)}
             /\ nextId' = nextId + 1
             /\ inserted' = Append(inserted, key)
             /\ cap' = [cap EXCEPT ![c] = [@ EXCEPT !.pc = "done", !.result = "resolved",
                                           !.rec = withKey(cap[c].rec, key),
                                           !.stored = TRUE]]
        ELSE /\ cap' = [cap EXCEPT ![c] = [@ EXCEPT !.pc = "done", !.result = "rejected"]]
             /\ UNCHANGED <<store, nextId, inserted>>
  /\ UNCHANGED <<dbVersion, objectStores, now, registered, localItems, syncVars, mut, reads, routerVars, serverVars>>

\* ---------------------------------------------------- submitAnswerMutation
\* handleSubmitAnswer: mutate({questionPaperId, fileName, fileContent})
mutate(m, data) ==
  /\ mut[m].pc = "idle"
  /\ \A d \in Mutations : d < m => mut[d].pc # "idle"
  /\ mut' = [mut EXCEPT ![m] = [@ EXCEPT !.pc = "posting", !.url = SubmitEndpoint,
                                !.data = data]]
  /\ UNCHANGED <<dbVars, captureVars, syncVars, reads, routerVars, serverVars>>

\* apiRequest('POST', '/api/submissions', data): the promise rejects when the
\* fetch fails at network level; for an HTTP error response either outcome
apiRequestRejects(outcome, throws) ==
  \/ outcome = "neterr"
  \/ outcome = "non2xx" /\ throws

\* mutationFn settles: onSuccess or onError runs
mutationSettled(m, outcome, throws) ==
  /\ mut[m].pc = "posting"
  /\ mut' = [mut EXCEPT ![m] =
       IF apiRequestRejects(outcome, throws)
       THEN [@ EXCEPT !.pc = "done", !.outcome = outcome, !.status = "error",
                      !.toast = "Failed to submit answer"]
       ELSE [@ EXCEPT !.pc = "done", !.outcome = outcome, !.status = "success",
                      !.toast = "Answer submitted successfully"]]
  /\ UNCHANGED <<dbVars, captureVars, syncVars, reads, routerVars, serverVars>>

\* ------------------------------------------------- install and activate events
queueVars == <<dbVars, captureVars, syncVars, mut, reads>>

\* the entries of cache name (none if there is no such cache)
entries(name) == IF name \in DOMAIN caches THEN caches[name] ELSE {}

\* caches.open(name) followed by a put of urls: the cache is created if absent
withEntries(name, urls) ==
  [n \in DOMAIN caches \cup {name} |-> IF n = name THEN entries(name) \cup urls ELSE caches[n]]

\* the install event: skipWaiting, and waitUntil(open(CACHE_NAME).then(addAll))
install ==
  /\ swState = "parsed"
  /\ swState' = "installing"
  /\ UNCHANGED <<caches, req, queueVars, serverVars>>

\* addAll settles: it stores all the assets or none; a rejection fails the install
installSettled(ok) ==
  /\ swState = "installing"
  /\ swState' = IF ok THEN "installed" ELSE "redundant"
  /\ caches' = withEntries(CACHE_NAME, IF ok THEN CACHE_ASSETS ELSE {})
  /\ UNCHANGED <<req, queueVars, serverVars>>

\* the activate event: clients.claim, and caches.keys() is asked for
activate ==
  /\ swState = "installed"
  /\ swState' = "activating"
  /\ UNCHANGED <<caches, req, queueVars, serverVars>>

\* an activation that deletes no cache
activateSettledKeepAll ==
  /\ swState = "activating"
  /\ swState' = "activated"
  /\ UNCHANGED <<caches, req, queueVars, serverVars>>

\* every cache whose name is not CACHE_NAME has been deleted
activateSettled ==
  /\ swState = "activating"
  /\ swState' = "activated"
  /\ caches' = [n \in DOMAIN caches \cap {CACHE_NAME} |-> caches[n]]
  /\ UNCHANGED <<req, queueVars, serverVars>>

\* ------------------------------------------------------------ the fetch event
startsWith(s, prefix) == Len(s) >= Len(prefix) /\ SubSeq(s, 1, Len(prefix)) = prefix
endsWith(s, ext) == Len(s) >= 1 /\ s[Len(s)] = ext

isApiRequest(url) == \E route \in API_ROUTES : startsWith(url.pathname, route)
isStaticAsset(url) == \E ext \in fileExtensions : endsWith(url.pathname, ext)

\* the tests of the handler with the static assets tested before the API routes
policyStaticFirst(request) ==
  IF request.url.origin # Location THEN "passthrough"
  ELSE IF isStaticAsset(request.url) THEN "static"
  ELSE IF isApiRequest(request.url) THEN "api"
  ELSE IF request.mode = "navigate" THEN "navigate"
  ELSE "default"

\* the branch of the fetch handler a request takes: the tests in their order
policy(request) ==
  IF request.url.origin # Location THEN "passthrough"
  ELSE IF isApiRequest(request.url) THEN "api"
  ELSE IF isStaticAsset(request.url) THEN "static"
  ELSE IF request.mode = "navigate" THEN "navigate"
  ELSE "default"

\* caches.match(url): a response for the URL in any cache
cachesMatch(url) == \E n \in DOMAIN caches : url \in caches[n]

NetworkResponse(url) == [source |-> "network", url |-> url]
CachedResponse(url) == [source |-> "cache", url |-> url]
\* new Response(JSON.stringify({error: ...}), {status: 503, ...})
OfflineResponse == [source |-> "synthesized", status |-> 503, body |-> "error"]
\* respondWith was given a promise that rejects or resolves with undefined
NoResponse == [source |-> "none"]
\* the handler returned without respondWith: the browser fetches as usual
Passthrough == [source |-> "browser"]

\* the first await of each branch
firstStep(branch) ==
  CASE branch = "passthrough" -> "done"
    [] branch = "api" -> "apiFetch"
    [] branch = "static" -> "staticMatch"
    [] branch = "navigate" -> "navFetch"
    [] branch = "default" -> "defaultMatch"

\* a fetch event is dispatched: the handler classifies the request and calls
\* respondWith with the promise of the branch, or returns
fetchEvent(f, request) ==
  /\ swState = "activated"
  /\ req[f].pc = "idle"
  /\ \A g \in Fetches : g < f => req[g].pc # "idle"
  /\ LET branch == policy(request)
     IN req' = [req EXCEPT ![f] =
          [@ EXCEPT !.pc = firstStep(branch), !.request = request, !.policy = branch,
                    !.netFetches = IF branch \in {"api", "navigate"} THEN 1 ELSE 0,
                    !.served = IF branch = "passthrough" THEN Passthrough ELSE Undefined,
                    !.doneBefore = {g \in Fetches : req[g].pc = "done"}]]
  /\ UNCHANGED <<swState, caches, queueVars, serverVars>>

Url(f) == req[f].request.url

\* request f is finished with response resp
Respond(f, resp) == [req[f] EXCEPT !.pc = "done", !.served = resp]

\* an API branch without the catch: the rejection of fetch goes to respondWith
apiSettledNoCatch(f, net) ==
  /\ req[f].pc = "apiFetch"
  /\ req' = [req EXCEPT ![f] =
       [Respond(f, IF net = "ok" THEN NetworkResponse(Url(f)) ELSE NoResponse)
          EXCEPT !.net = net]]
  /\ UNCHANGED <<swState, caches, queueVars, serverVars>>

\* API branch: fetch(event.request) settles; a rejection is caught and answered
\* with the 503 response
apiSettled(f, net) ==
  /\ req[f].pc = "apiFetch"
  /\ req' = [req EXCEPT ![f] =
       [Respond(f, IF net = "ok" THEN NetworkResponse(Url(f)) ELSE OfflineResponse)
          EXCEPT !.net = net]]
  /\ UNCHANGED <<swState, caches, queueVars, serverVars>>

\* static branch: caches.match settles; a hit is returned, a miss goes to fetch
staticMatched(f) ==
  /\ req[f].pc = "staticMatch"
  /\ req' = [req EXCEPT ![f] =
       IF cachesMatch(Url(f))
       THEN [Respond(f, CachedResponse(Url(f))) EXCEPT !.cacheRead = TRUE]
       ELSE [@ EXCEPT !.pc = "staticFetch", !.cacheRead = TRUE, !.netFetches = @ + 1]]
  /\ UNCHANGED <<swState, caches, queueVars, serverVars>>

\* static branch: fetch settles; the clone is handed to caches.open(...).then(put),
\* which nobody waits for, and the response is returned; a rejection of fetch is
\* not caught
staticFetched(f, net) ==
  /\ req[f].pc = "staticFetch"
  /\ req' = [req EXCEPT ![f] =
       IF net = "ok"
       THEN [Respond(f, NetworkResponse(Url(f))) EXCEPT !.net = net, !.put = "pending"]
       ELSE [Respond(f, NoResponse) EXCEPT !.net = net]]
  /\ UNCHANGED <<swState, caches, queueVars, serverVars>>

\* the cache.put started by the static branch settles
cachePut(f, ok) ==
  /\ req[f].put = "pending"
  /\ req' = [req EXCEPT ![f] = [@ EXCEPT !.put = IF ok THEN "stored" ELSE "failed"]]
  /\ caches' = IF ok THEN withEntries(CACHE_NAME, {Url(f)}) ELSE caches
  /\ UNCHANGED <<swState, queueVars, serverVars>>

\* navigation branch: fetch settles; a rejection goes to caches.match(request)
navSettled(f, net) ==
  /\ req[f].pc = "navFetch"
  /\ req' = [req EXCEPT ![f] =
       IF net = "ok"
       THEN [Respond(f, NetworkResponse(Url(f))) EXCEPT !.net = net]
       ELSE [@ EXCEPT !.pc = "navMatch", !.net = net]]
  /\ UNCHANGED <<swState, caches, queueVars, serverVars>>

\* navigation branch: caches.match(request) settles; a miss goes to
\* caches.match('/index.html')
navMatched(f) ==
  /\ req[f].pc = "navMatch"
  /\ req' = [req EXCEPT ![f] =
       IF cachesMatch(Url(f))
       THEN [Respond(f, CachedResponse(Url(f))) EXCEPT !.cacheRead = TRUE]
       ELSE [@ EXCEPT !.pc = "navShell", !.cacheRead = TRUE]]
  /\ UNCHANGED <<swState, caches, queueVars, serverVars>>

\* navigation branch: caches.match('/index.html') settles, with the response or
\* with undefined
navShell(f) ==
  /\ req[f].pc = "navShell"
  /\ req' = [req EXCEPT ![f] =
       Respond(f, IF cachesMatch(sameOrigin(IndexPath))
                  THEN CachedResponse(sameOrigin(IndexPath))
                  ELSE NoResponse)]
  /\ UNCHANGED <<swState, caches, queueVars, serverVars>>

\* default branch: caches.match settles; a hit is returned, a miss goes to fetch
defaultMatched(f) ==
  /\ req[f].pc = "defaultMatch"
  /\ req' = [req EXCEPT ![f] =
       IF cachesMatch(Url(f))
       THEN [Respond(f, CachedResponse(Url(f))) EXCEPT !.cacheRead = TRUE]
       ELSE [@ EXCEPT !.pc = "defaultFetch", !.cacheRead = TRUE, !.netFetches = @ + 1]]
  /\ UNCHANGED <<swState, caches, queueVars, serverVars>>

\* default branch: fetch settles; its response or its rejection is the answer
defaultFetched(f, net) ==
  /\ req[f].pc = "defaultFetch"
  /\ req' = [req EXCEPT ![f] =
       [Respond(f, IF net = "ok" THEN NetworkResponse(Url(f)) ELSE NoResponse)
          EXCEPT !.net = net]]
  /\ UNCHANGED <<swState, caches, queueVars, serverVars>>

\* ---------------------------------------------------------- specifications
\* the queue: captures into IndexedDB and sync passes
Next ==
  \/ \E c \in Captures, d \in Payloads : storeForOffline(c, d)
  \/ \E c \in Captures, ok \in BOOLEAN : storeForOfflineOpened(c, ok)
  \/ \E c \in Captures, ok \in BOOLEAN, reg \in BOOLEAN : storeForOfflineAdded(c, ok, reg)
  \/ \E t \in Tags : sync(t)
  \/ \E p \in Passes, ok \in BOOLEAN : openDatabase(p, ok)
  \/ \E p \in Passes, ok \in BOOLEAN : getPendingSubmissions(p, ok)
  \/ \E p \in Passes, r \in Responses : fetchSettled(p, r)
  \/ \E p \in Passes, ok \in BOOLEAN : removeSubmission(p, ok)

Spec == Init /\ [][Next]_vars

\* the capture: the submit mutation and both storeForOffline helpers
NextCapture ==
  \/ \E m \in Mutations, d \in Payloads : mutate(m, d)
  \/ \E m \in Mutations, o \in Responses, t \in BOOLEAN : mutationSettled(m, o, t)
  \/ \E c \in Captures, d \in Payloads : storeForOffline(c, d)
  \/ \E c \in Captures, ok \in BOOLEAN : storeForOfflineOpened(c, ok)
  \/ \E c \in Captures, ok \in BOOLEAN, reg \in BOOLEAN : storeForOfflineAdded(c, ok, reg)
  \/ \E c \in Captures, d \in Payloads, ok \in BOOLEAN : storeForOfflineLocal(c, d, ok)

SpecCapture == Init /\ [][NextCapture]_vars

\* the store: every opener, both puts and both readers of ExamShareOfflineDB
NextStore ==
  \/ \E c \in Captures, d \in Payloads : storeForOffline(c, d)
  \/ \E c \in Captures, ok \in BOOLEAN : storeForOfflineOpened(c, ok)
  \/ \E c \in Captures, ok \in BOOLEAN, reg \in BOOLEAN : storeForOfflineAdded(c, ok, reg)
  \/ \E c \in Captures, d \in Payloads : storeSubmission(c, d)
  \/ \E c \in Captures, ok \in BOOLEAN : storeSubmissionOpened(c, ok)
  \/ \E c \in Captures, ok \in BOOLEAN : storeSubmissionAdded(c, ok)
  \/ \E r \in Reads : getOfflineData(r, "pendingSubmissions")
  \/ \E r \in Reads, ok \in BOOLEAN : getOfflineDataOpened(r, ok)
  \/ \E r \in Reads, ok \in BOOLEAN : getOfflineDataRead(r, ok)
  \/ \E t \in Tags : sync(t)
  \/ \E p \in Passes, ok \in BOOLEAN : openDatabase(p, ok)
  \/ \E p \in Passes, ok \in BOOLEAN : getPendingSubmissions(p, ok)

SpecStore == Init /\ [][NextStore]_vars

\* the queue, with callers of storeForOffline that pass data carrying an id
NextKeyed ==
  \/ \E c \in Captures, d \in Payloads \cup KeyedPayloads : storeForOffline(c, d)
  \/ \E c \in Captures, ok \in BOOLEAN : storeForOfflineOpened(c, ok)
  \/ \E c \in Captures, ok \in BOOLEAN, reg \in BOOLEAN : storeForOfflineAdded(c, ok, reg)
  \/ \E t \in Tags : sync(t)
  \/ \E p \in Passes, ok \in BOOLEAN : openDatabase(p, ok)
  \/ \E p \in Passes, ok \in BOOLEAN : getPendingSubmissions(p, ok)
  \/ \E p \in Passes, r \in Responses : fetchSettled(p, r)
  \/ \E p \in Passes, ok \in BOOLEAN : removeSubmission(p, ok)

SpecKeyed == Init /\ [][NextKeyed]_vars

\* the router: the life cycle of the service worker and its fetch handler
NextRouter ==
  \/ install
  \/ \E ok \in BOOLEAN : installSettled(ok)
  \/ activate
  \/ activateSettled
  \/ \E f \in Fetches, q \in Requests : fetchEvent(f, q)
  \/ \E f \in Fetches, n \in NetOutcomes : apiSettled(f, n)
  \/ \E f \in Fetches : staticMatched(f)
  \/ \E f \in Fetches, n \in NetOutcomes : staticFetched(f, n)
  \/ \E f \in Fetches, ok \in BOOLEAN : cachePut(f, ok)
  \/ \E f \in Fetches, n \in NetOutcomes : navSettled(f, n)
  \/ \E f \in Fetches : navMatched(f)
  \/ \E f \in Fetches : navShell(f)
  \/ \E f \in Fetches : defaultMatched(f)
  \/ \E f \in Fetches, n \in NetOutcomes : defaultFetched(f, n)

SpecRouter == Init /\ [][NextRouter]_vars

\* ------------------------------------------------- the queue with sync events for ever
\* a sync event with tag 'submit-answer' starts syncPendingSubmissions; the log of an
\* ended pass is dropped for the new pass's, and the sequence of events is not kept, so
\* that events can fire without end
syncRepeated(p) ==
  /\ pass[p].pc \in {"idle", "done"}
  /\ pass' = [pass EXCEPT ![p] = [IdlePass EXCEPT !.pc = "open"]]
  /\ attempts' = [attempts EXCEPT ![p] = <<>>]
  /\ notifications' = [notifications EXCEPT ![p] = <<>>]
  /\ UNCHANGED <<dbVars, captureVars, events, mut, reads, routerVars, serverVars>>

\* the captures: every call passes the same payload, and the sync is registered
NextLive ==
  \/ \E c \in Captures, d \in {q \in Payloads : q.questionPaperId = 7} : storeForOffline(c, d)
  \/ \E c \in Captures, ok \in BOOLEAN : storeForOfflineOpened(c, ok)
  \/ \E c \in Captures, ok \in BOOLEAN : storeForOfflineAdded(c, ok, TRUE)
  \/ \E p \in Passes : syncRepeated(p)
  \/ \E p \in Passes, ok \in BOOLEAN : openDatabase(p, ok)
  \/ \E p \in Passes, ok \in BOOLEAN : getPendingSubmissions(p, ok)
  \/ \E p \in Passes, r \in Responses : fetchSettled(p, r)
  \/ \E p \in Passes, ok \in BOOLEAN : removeSubmission(p, ok)

\* every awaited request of a pass settles
PassRuns ==
  /\ WF_vars(\E p \in Passes, ok \in BOOLEAN : openDatabase(p, ok))
  /\ WF_vars(\E p \in Passes, ok \in BOOLEAN : getPendingSubmissions(p, ok))
  /\ WF_vars(\E p \in Passes, r \in Responses : fetchSettled(p, r))
  /\ WF_vars(\E p \in Passes, ok \in BOOLEAN : removeSubmission(p, ok))

\* sync events keep firing
TriggersKeepFiring == WF_vars(\E p \in Passes : syncRepeated(p))

\* store operations do not fail for ever, and the endpoint does not refuse a record for ever
EventuallySucceeds ==
  /\ SF_vars(\E p \in Passes : openDatabase(p, TRUE))
  /\ SF_vars(\E p \in Passes : getPendingSubmissions(p, TRUE))
  /\ SF_vars(\E p \in Passes : removeSubmission(p, TRUE))
  /\ \A id \in 1..MaxCaptures :
       SF_vars(\E p \in Passes : fetchSettled(p, "2xx") /\ attempts[p][Current(p)].id = id)

SpecLive == Init /\ [][NextLive]_vars /\ PassRuns /\ TriggersKeepFiring /\ EventuallySucceeds

\* ------------------------------------------------------------- server routes
\* Each await of a handler resolves on a promise MemStorage has already settled, so the
\* handler resumes in a microtask, before the callback of any other request: a handler is
\* one step.
ADMIN == "admin"
STUDENT == "student"
ASSESSOR == "assessor"

\* the accounts that can log in
Users == {[id |-> 1, role |-> ADMIN], [id |-> 2, role |-> STUDENT],
          [id |-> 3, role |-> STUDENT], [id |-> 4, role |-> ASSESSOR]}
\* a request without a session
NoUser == [id |-> 0, role |-> "none"]
Callers == Users \cup {NoUser}
isAuthenticated(u) == u \in Users

\* the ids a path or a body can name: every id that can be created, and one that never is
QuestionPaperIds == 1..(MaxPapers + 1)
SubmissionIds == 1..(MaxSubmissions + 1)
NotificationIds == 1..(MaxComments + 1)
Titles == {"t1", "t2"}

NoBody == [none |-> TRUE]
PaperBodies == [valid : BOOLEAN, title : Titles]
\* studentId 0 : the body has no studentId
SubmissionBodies == [questionPaperId : QuestionPaperIds, studentId : {0, 2}]
CommentBodies == [valid : BOOLEAN]

\* checkRole without the test of the role
checkRoleSessionOnly(roles, u) ==
  IF ~isAuthenticated(u) THEN 401
  ELSE 0

\* checkRole(...roles): the status it answers, 0 when it calls next()
checkRole(roles, u) ==
  IF ~isAuthenticated(u) THEN 401
  ELSE IF u.role \notin roles THEN 403
  ELSE 0

\* res.status(status).json(sent), recorded with the request it answers
res(route, u, id, body, status, sent) ==
  last' = [route |-> route, user |-> u.id, id |-> id, body |-> body, status |-> status,
           sent |-> sent]

\* MemStorage readers: a set with the record, or the empty set for undefined
getQuestionPaper(id) == {p \in questionPapers : p.id = id}
getAnswerSubmission(id) == {s \in answerSubmissions : s.id = id}
getAnswerSubmissions(questionPaperId) ==
  IF questionPaperId # 0 THEN {s \in answerSubmissions : s.questionPaperId = questionPaperId}
  ELSE answerSubmissions
getAnswerSubmissionsByStudent(studentId) ==
  {s \in answerSubmissions : s.studentId = studentId}
getComments(submissionId) == {c \in comments : c.submissionId = submissionId}
getNotifications(userId) == {n \in userNotifications : n.userId = userId}

\* MemStorage writers: the record each one stores
createQuestionPaper(paper) ==
  [id |-> currentPaperId, title |-> paper.title, uploadedById |-> paper.uploadedById]
updateQuestionPaper(id, updates) ==
  {IF p.id = id THEN [p EXCEPT !.title = updates.title] ELSE p : p \in questionPapers}
deleteQuestionPaper(id) == {p \in questionPapers : p.id # id}
createAnswerSubmission(submission) ==
  [id |-> currentSubmissionId, questionPaperId |-> submission.questionPaperId,
   studentId |-> submission.studentId, status |-> "submitted"]
createComment(comment) ==
  [id |-> currentCommentId, submissionId |-> comment.submissionId,
   assessorId |-> comment.assessorId]
\* a notification created already read
createNotificationRead(notification) ==
  [id |-> currentNotificationId, userId |-> notification.userId, isRead |-> TRUE]

createNotification(notification) ==
  [id |-> currentNotificationId, userId |-> notification.userId, isRead |-> FALSE]
markNotificationAsRead(id) ==
  {IF n.id = id THEN [n EXCEPT !.isRead = TRUE] ELSE n : n \in userNotifications}

\* what a handler that only reads leaves alone
readOnly == UNCHANGED <<schemaNamesBound, storageVars, queueVars, routerVars>>

\* GET /api/question-papers
GET_question_papers(u) ==
  /\ IF ~isAuthenticated(u) THEN res("GET /api/question-papers", u, 0, NoBody, 401, {})
     ELSE res("GET /api/question-papers", u, 0, NoBody, 200, questionPapers)
  /\ readOnly

\* GET /api/question-papers/:id
GET_question_paper(u, id) ==
  /\ IF ~isAuthenticated(u) THEN res("GET /api/question-papers/:id", u, id, NoBody, 401, {})
     ELSE IF getQuestionPaper(id) = {}
     THEN res("GET /api/question-papers/:id", u, id, NoBody, 404, {})
     ELSE res("GET /api/question-papers/:id", u, id, NoBody, 200, getQuestionPaper(id))
  /\ readOnly

\* POST /api/question-papers
POST_question_papers(u, body) ==
  LET route == "POST /api/question-papers"
      denied == checkRole({ADMIN}, u)
      paper == createQuestionPaper([title |-> body.title, uploadedById |-> u.id])
  IN
  /\ IF denied # 0
     THEN res(route, u, 0, body, denied, {}) /\ UNCHANGED storageVars
     ELSE IF ~schemaNamesBound
     THEN res(route, u, 0, body, 500, {}) /\ UNCHANGED storageVars
     ELSE IF ~body.valid
     THEN res(route, u, 0, body, 400, {}) /\ UNCHANGED storageVars
     ELSE /\ currentPaperId <= MaxPapers
          /\ questionPapers' = questionPapers \cup {paper}
          /\ currentPaperId' = currentPaperId + 1
          /\ res(route, u, 0, body, 201, {paper})
          /\ UNCHANGED <<answerSubmissions, currentSubmissionId, comments, currentCommentId,
                         userNotifications, currentNotificationId>>
  /\ UNCHANGED <<schemaNamesBound, queueVars, routerVars>>

\* PUT /api/question-papers/:id
PUT_question_paper(u, id, body) ==
  LET route == "PUT /api/question-papers/:id"
      denied == checkRole({ADMIN}, u)
  IN
  /\ IF denied # 0
     THEN res(route, u, id, body, denied, {}) /\ UNCHANGED storageVars
     ELSE IF getQuestionPaper(id) = {}
     THEN res(route, u, id, body, 404, {}) /\ UNCHANGED storageVars
     ELSE IF ~schemaNamesBound
     THEN res(route, u, id, body, 500, {}) /\ UNCHANGED storageVars
     ELSE IF ~body.valid
     THEN res(route, u, id, body, 400, {}) /\ UNCHANGED storageVars
     ELSE /\ questionPapers' = updateQuestionPaper(id, body)
          /\ res(route, u, id, body, 200, {p \in updateQuestionPaper(id, body) : p.id = id})
          /\ UNCHANGED <<currentPaperId, answerSubmissions, currentSubmissionId, comments,
                         currentCommentId, userNotifications, currentNotificationId>>
  /\ UNCHANGED <<schemaNamesBound, queueVars, routerVars>>

\* DELETE /api/question-papers/:id
DELETE_question_paper(u, id) ==
  LET route == "DELETE /api/question-papers/:id"
      denied == checkRole({ADMIN}, u)
  IN
  /\ IF denied # 0
     THEN res(route, u, id, NoBody, denied, {}) /\ UNCHANGED storageVars
     ELSE IF getQuestionPaper(id) = {}
     THEN res(route, u, id, NoBody, 404, {}) /\ UNCHANGED storageVars
     ELSE /\ questionPapers' = deleteQuestionPaper(id)
          /\ res(route, u, id, NoBody, 204, {})
          /\ UNCHANGED <<currentPaperId, answerSubmissions, currentSubmissionId, comments,
                         currentCommentId, userNotifications, currentNotificationId>>
  /\ UNCHANGED <<schemaNamesBound, queueVars, routerVars>>

\* GET /api/question-papers/:id/submissions
GET_paper_submissions(u, id) ==
  LET route == "GET /api/question-papers/:id/submissions"
      denied == checkRole({ADMIN, ASSESSOR}, u)
  IN
  /\ IF denied # 0 THEN res(route, u, id, NoBody, denied, {})
     ELSE IF getQuestionPaper(id) = {} THEN res(route, u, id, NoBody, 404, {})
     ELSE res(route, u, id, NoBody, 200, getAnswerSubmissions(id))
  /\ readOnly

\* GET /api/my-submissions
GET_my_submissions(u) ==
  LET route == "GET /api/my-submissions"
      denied == checkRole({STUDENT}, u)
  IN
  /\ IF denied # 0 THEN res(route, u, 0, NoBody, denied, {})
     ELSE res(route, u, 0, NoBody, 200, getAnswerSubmissionsByStudent(u.id))
  /\ readOnly

\* an access check that lets every student through
foreignNever(u, submission) == FALSE

\* the access check of the two readers of one submission: a student reads only their own
foreign(u, submission) == u.role = STUDENT /\ submission.studentId # u.id

\* GET /api/submissions/:id
GET_submission(u, id) ==
  LET route == "GET /api/submissions/:id" IN
  /\ IF ~isAuthenticated(u) THEN res(route, u, id, NoBody, 401, {})
     ELSE IF getAnswerSubmission(id) = {} THEN res(route, u, id, NoBody, 404, {})
     ELSE IF \E s \in getAnswerSubmission(id) : foreign(u, s)
     THEN res(route, u, id, NoBody, 403, {})
     ELSE res(route, u, id, NoBody, 200, getAnswerSubmission(id))
  /\ readOnly

\* POST /api/submissions
POST_submissions(u, body) ==
  LET route == "POST /api/submissions"
      denied == checkRole({STUDENT}, u)
      submission == createAnswerSubmission([questionPaperId |-> body.questionPaperId,
                                            studentId |-> u.id])
  IN
  /\ IF denied # 0
     THEN res(route, u, 0, body, denied, {}) /\ UNCHANGED storageVars
     ELSE IF ~schemaNamesBound
     THEN res(route, u, 0, body, 500, {}) /\ UNCHANGED storageVars
     ELSE IF body.studentId = 0
     THEN res(route, u, 0, body, 400, {}) /\ UNCHANGED storageVars
     ELSE IF getQuestionPaper(body.questionPaperId) = {}
     THEN res(route, u, 0, body, 404, {}) /\ UNCHANGED storageVars
     ELSE /\ currentSubmissionId <= MaxSubmissions
          /\ answerSubmissions' = answerSubmissions \cup {submission}
          /\ currentSubmissionId' = currentSubmissionId + 1
          /\ res(route, u, 0, body, 201, {submission})
          /\ UNCHANGED <<questionPapers, currentPaperId, comments, currentCommentId,
                         userNotifications, currentNotificationId>>
  /\ UNCHANGED <<schemaNamesBound, queueVars, routerVars>>

\* GET /api/submissions/:id/comments
GET_submission_comments(u, id) ==
  LET route == "GET /api/submissions/:id/comments" IN
  /\ IF ~isAuthenticated(u) THEN res(route, u, id, NoBody, 401, {})
     ELSE IF getAnswerSubmission(id) = {} THEN res(route, u, id, NoBody, 404, {})
     ELSE IF \E s \in getAnswerSubmission(id) : foreign(u, s)
     THEN res(route, u, id, NoBody, 403, {})
     ELSE res(route, u, id, NoBody, 200, getComments(id))
  /\ readOnly

\* POST /api/submissions/:id/comments
POST_submission_comments(u, id, body) ==
  LET route == "POST /api/submissions/:id/comments"
      denied == checkRole({ASSESSOR}, u)
      submission == CHOOSE s \in getAnswerSubmission(id) : TRUE
      comment == createComment([submissionId |-> id, assessorId |-> u.id])
      notification == createNotification([userId |-> submission.studentId])
  IN
  /\ IF denied # 0
     THEN res(route, u, id, body, denied, {}) /\ UNCHANGED storageVars
     ELSE IF getAnswerSubmission(id) = {}
     THEN res(route, u, id, body, 404, {}) /\ UNCHANGED storageVars
     ELSE IF ~schemaNamesBound
     THEN res(route, u, id, body, 500, {}) /\ UNCHANGED storageVars
     ELSE IF ~body.valid
     THEN res(route, u, id, body, 400, {}) /\ UNCHANGED storageVars
     ELSE /\ currentCommentId <= MaxComments
          /\ comments' = comments \cup {comment}
          /\ currentCommentId' = currentCommentId + 1
          /\ userNotifications' = userNotifications \cup {notification}
          /\ currentNotificationId' = currentNotificationId + 1
          /\ res(route, u, id, body, 201, {comment})
          /\ UNCHANGED <<questionPapers, currentPaperId, answerSubmissions,
                         currentSubmissionId>>
  /\ UNCHANGED <<schemaNamesBound, queueVars, routerVars>>

\* GET /api/notifications
GET_notifications(u) ==
  /\ IF ~isAuthenticated(u) THEN res("GET /api/notifications", u, 0, NoBody, 401, {})
     ELSE res("GET /api/notifications", u, 0, NoBody, 200, getNotifications(u.id))
  /\ readOnly

\* PUT /api/notifications/:id/read
PUT_notification_read(u, id) ==
  LET route == "PUT /api/notifications/:id/read" IN
  /\ IF ~isAuthenticated(u)
     THEN res(route, u, id, NoBody, 401, {}) /\ UNCHANGED storageVars
     ELSE IF \A n \in userNotifications : n.id # id
     THEN res(route, u, id, NoBody, 404, {}) /\ UNCHANGED storageVars
     ELSE /\ userNotifications' = markNotificationAsRead(id)
          /\ res(route, u, id, NoBody, 204, {})
          /\ UNCHANGED <<questionPapers, currentPaperId, answerSubmissions,
                         currentSubmissionId, comments, currentCommentId,
                         currentNotificationId>>
  /\ UNCHANGED <<schemaNamesBound, queueVars, routerVars>>

NextServer ==
  \/ \E u \in Callers : GET_question_papers(u)
  \/ \E u \in Callers, id \in QuestionPaperIds : GET_question_paper(u, id)
  \/ \E u \in Callers, body \in PaperBodies : POST_question_papers(u, body)
  \/ \E u \in Callers, id \in QuestionPaperIds, body \in PaperBodies : PUT_question_paper(u, id, body)
  \/ \E u \in Callers, id \in QuestionPaperIds : DELETE_question_paper(u, id)
  \/ \E u \in Callers, id \in QuestionPaperIds : GET_paper_submissions(u, id)
  \/ \E u \in Callers : GET_my_submissions(u)
  \/ \E u \in Callers, id \in SubmissionIds : GET_submission(u, id)
  \/ \E u \in Callers, body \in SubmissionBodies : POST_submissions(u, body)
  \/ \E u \in Callers, id \in SubmissionIds : GET_submission_comments(u, id)
  \/ \E u \in Callers, id \in SubmissionIds, body \in CommentBodies :
       POST_submission_comments(u, id, body)
  \/ \E u \in Callers : GET_notifications(u)
  \/ \E u \in Callers, id \in NotificationIds : PUT_notification_read(u, id)

SpecServer == InitServer /\ [][NextServer]_vars

\* ------------------------------------------------------------------ claims
Failures == {"non2xx", "neterr"}

\* some delivery of the record with key id was answered 2xx
Acked(id) ==
  \E p \in Passes : \E k \in 1..Len(attempts[p]) :
    attempts[p][k].id = id /\ attempts[p][k].resp = "2xx"

\* the place of key id in the put order
Pos(id) == CHOOSE i \in 1..Len(inserted) : inserted[i] = id

\* number of notifications pass p raised for key id
Notified(p, id) == Cardinality({n \in 1..Len(notifications[p]) : notifications[p][n].id = id})

\* attempt k of pass p has been dealt with: the loop went past it
Handled(p, k) == k < Len(attempts[p]) \/ pass[p].pc = "done"

Range(s) == {s[i] : i \in 1..Len(s)}

Quiescent == \A p \in Passes : pass[p].pc \in {"idle", "done"}

\* C1: a record leaves pendingSubmissions only after a delivery of that record
\* was answered 2xx; no step removes a record whose deliveries all failed.
C1_NoDropOnFailure ==
  [][\A r \in store : r.id \notin Ids(store') => Acked(r.id)]_vars

\* a finished pass in which one delivery failed and its record is still queued,
\* and another delivery was answered 2xx and its record is gone
C1_Witness ==
  \E p \in Passes :
    /\ pass[p].pc = "done"
    /\ \E k \in 1..Len(attempts[p]) :
         attempts[p][k].resp \in Failures /\ attempts[p][k].id \in Ids(store)
    /\ \E k \in 1..Len(attempts[p]) :
         attempts[p][k].resp = "2xx" /\ attempts[p][k].id \notin Ids(store)

\* C2: once a sync pass has finished (and none is running), a captured record
\* is in the queue if and only if no 2xx acknowledgment was received for it.
C2_QueuedIffUnacked ==
  (Quiescent /\ \E p \in Passes : pass[p].pc = "done") =>
    \A c \in Captures :
      (cap[c].impl = "idb" /\ cap[c].stored) =>
        (cap[c].rec \in store <=> ~Acked(cap[c].rec.id))

\* C3: in a pass, every record whose delivery was answered 2xx is deleted and
\* gets exactly one notification; a record whose delivery failed gets none.
C3_AckDeletesAndNotifiesOnce ==
  \A p \in Passes : \A k \in 1..Len(attempts[p]) :
    Handled(p, k) =>
      IF attempts[p][k].resp = "2xx"
      THEN /\ attempts[p][k].id \notin Ids(store)
           /\ Notified(p, attempts[p][k].id) = 1
      ELSE Notified(p, attempts[p][k].id) = 0

\* C4: a failed delivery leaves its record queued and the pass goes on to every
\* later record of the snapshot; with two queued records answered 500 and 200
\* the queue ends holding exactly the first.
C4_FailureDoesNotBlock ==
  \A p \in Passes :
    (pass[p].pc = "done" /\ pass[p].read) =>
      /\ Len(attempts[p]) = Len(pass[p].snapshot)
      /\ \A k \in 1..Len(attempts[p]) :
           (attempts[p][k].resp \in Failures /\ ~Acked(attempts[p][k].id))
             => attempts[p][k].id \in Ids(store)
      /\ ( /\ Len(events) = 1
           /\ Len(inserted) = 2
           /\ Len(attempts[p]) = 2
           /\ attempts[p][1].resp = "non2xx"
           /\ attempts[p][2].resp = "2xx" )
         => Ids(store) = {attempts[p][1].id}

\* C5: within a pass at most one delivery is in flight, the next one starts only
\* after the previous one and its delete have settled, and the deliveries follow
\* the snapshot, which is in the order the records were put.
C5_SequentialInInsertionOrder ==
  \A p \in Passes :
    /\ \A k \in 1..Len(attempts[p]) :
         /\ attempts[p][k].id = pass[p].snapshot[k].id
         /\ (attempts[p][k].resp = "pending") =>
              (k = Len(attempts[p]) /\ pass[p].pc = "fetch")
    /\ pass[p].pc \in {"fetch", "remove"} => Len(attempts[p]) = pass[p].idx
    /\ \A i, j \in 1..Len(pass[p].snapshot) :
         i < j => Pos(pass[p].snapshot[i].id) < Pos(pass[p].snapshot[j].id)

\* a finished pass that delivered every record put so far, at least two
C5_Witness ==
  \E p \in Passes :
    /\ pass[p].pc = "done"
    /\ Len(attempts[p]) = Len(inserted)
    /\ Len(attempts[p]) >= 2

\* the deliveries of every pass against what it found when it read the queue
AttemptsMatchSnapshot ==
  \A p \in Passes :
    /\ (p > Len(events) \/ events[p] # SyncTag) =>
         (pass[p] = IdlePass /\ attempts[p] = <<>> /\ notifications[p] = <<>>)
    /\ {attempts[p][k].id : k \in 1..Len(attempts[p])} \subseteq pass[p].seen
    /\ \A i, j \in 1..Len(attempts[p]) :
         i # j => attempts[p][i].id # attempts[p][j].id
    /\ pass[p].pc = "done" =>
         IF pass[p].read
         THEN {attempts[p][k].id : k \in 1..Len(attempts[p])} = pass[p].seen
         ELSE attempts[p] = <<>>

\* a sync event with another tag changes nothing but the record of the event
OtherTagChangesNothing ==
  (Len(events') > Len(events) /\ events'[Len(events')] # SyncTag) =>
    UNCHANGED <<dbVars, captureVars, pass, attempts, notifications, mut, reads, routerVars, serverVars>>

\* C6: a finished pass made exactly one delivery per record that was pending
\* when it read the queue and no other (none for an empty queue); an event with
\* another tag starts no pass, makes no delivery and changes nothing.
C6_OneAttemptPerPendingRecord ==
  []AttemptsMatchSnapshot /\ [][OtherTagChangesNothing]_vars

\* an event with another tag was ignored, and a finished pass delivered each of
\* the two records it found
C6_Witness ==
  /\ \E q \in 1..Len(events) : events[q] = OtherTag
  /\ \E p \in Passes :
       pass[p].pc = "done" /\ pass[p].read /\ Cardinality(pass[p].seen) = 2

\* C7: every delivery attempt is for a record that is in the queue at the moment
\* of the attempt, also when sync triggers overlap.
C7_NoRedeliveryOfDeleted ==
  \A p \in Passes : \A k \in 1..Len(attempts[p]) : attempts[p][k].queued

\* C8: a put that runs while a pass is in flight changes no record already
\* queued and adds a record no pass has in its snapshot; a record is deleted
\* only by a pass whose snapshot holds that very record.
C8_PutAndPassDoNotInterfere ==
  [][ /\ \A r \in store :
           r \notin store' =>
             \E p \in Passes :
               pass[p].pc = "remove" /\ r \in Range(pass[p].snapshot)
      /\ \A c \in Captures :
           (cap[c].pc = "add" /\ cap'[c].result = "resolved") =>
             /\ store \subseteq store'
             /\ cap'[c].rec \in store'
             /\ \A p \in Passes : cap'[c].rec.id \notin pass[p].seen ]_vars

\* a pass is between its getAll and its end, and the queue holds a record that
\* was put after the pass read it
C8_Witness ==
  \E p \in Passes :
    /\ pass[p].read
    /\ pass[p].pc \in {"fetch", "remove"}
    /\ \E r \in store : r.id \notin pass[p].seen

\* the submission a record carries
payloadOf(r) ==
  [questionPaperId |-> r.questionPaperId, fileName |-> r.fileName,
   fileContent |-> r.fileContent]

\* C9: after a submission whose delivery failed at network level, the queue
\* holds a record with the submission's paper id, file name and file content
\* and the sync tag 'submit-answer' is registered.
C9_NetworkFailureIsCaptured ==
  \A m \in Mutations :
    (mut[m].pc = "done" /\ mut[m].outcome = "neterr") =>
      /\ \E r \in store : payloadOf(r) = mut[m].data
      /\ SyncTag \in registered

\* the record of a finished capture is where the helper put it
InStore(c) ==
  IF cap[c].impl = "idb"
  THEN cap[c].rec \in store
  ELSE \E i \in 1..Len(localItems) : payloadOf(localItems[i]) = cap[c].data

\* C10: a capture whose persistence failed rejects, a capture that reports
\* success has its record in the store, and a network failure alone is not
\* reported to the caller as a failure.
C10_NoSilentLoss ==
  /\ \A c \in Captures :
       cap[c].pc = "done" =>
         /\ ~cap[c].stored => cap[c].result = "rejected"
         /\ cap[c].result = "resolved" => InStore(c)
  /\ \A m \in Mutations :
       (mut[m].pc = "done" /\ mut[m].outcome = "neterr") => mut[m].status # "error"

\* C11: every delivery a pass makes for a captured record is a POST to the
\* endpoint the online submission uses, its body is the paper id, file name and
\* file content that were captured, and only a 2xx answer counts as delivered.
C11_DeliveryCarriesCapturedRecord ==
  \A p \in Passes : \A k \in 1..Len(attempts[p]) :
    /\ attempts[p][k].method = "POST"
    /\ attempts[p][k].url = SubmitEndpoint
    /\ \E c \in Captures :
         /\ cap[c].impl = "idb" /\ cap[c].stored
         /\ cap[c].rec.id = attempts[p][k].id
         /\ attempts[p][k].body = cap[c].data
    /\ Notified(p, attempts[p][k].id) > 0 => attempts[p][k].resp = "2xx"

\* the keys the key generator of pendingSubmissions assigned, in put order
IdbIdsIncrease ==
  \A i, j \in 1..Len(inserted) : i < j => inserted[i] < inserted[j]

\* the ids the localStorage helper assigned, in put order
LocalIdsIncrease ==
  \A i, j \in 1..Len(localItems) : i < j => localItems[i].id < localItems[j].id

\* C12: the ids given to records put without an id are strictly increasing in
\* put order and never reused: a new id is greater than every id assigned before
\* in the partition, the ids of deleted records included.
C12_IdsStrictlyIncreasing == IdbIdsIncrease /\ LocalIdsIncrease

\* a put of capture c resolves in this step
PutResolves(c) == cap[c].pc \in {"add", "swAdd"} /\ cap'[c].result = "resolved"

\* record x is the input plus an id and a timestamp, and nothing else
InputPlusIdAndTimestamp(x, input) ==
  /\ DOMAIN x = DOMAIN input \cup {"id", "timestamp"}
  /\ \A f \in DOMAIN input : x[f] = input[f]

\* record x as the put of capture c builds it: storeForOffline spreads the input
\* and adds timestamp and pendingSync: true, storeSubmission keeps the input
\* under data and adds timestamp; the store adds the id
InputAsStored(x, input, impl) ==
  IF impl = "idb"
  THEN /\ DOMAIN x = DOMAIN input \cup {"id", "timestamp", "pendingSync"}
       /\ \A f \in DOMAIN input : x[f] = input[f]
       /\ x.pendingSync = TRUE
  ELSE /\ DOMAIN x = {"id", "data", "timestamp"}
       /\ x.data = input

\* what getOfflineData resolved with is made of records that were put
ReadReturnsPutRecords ==
  \A r \in Reads :
    reads[r].status = "resolved" =>
      \A i \in 1..Len(reads[r].result) :
        \E c \in Captures :
          /\ cap[c].stored /\ cap[c].rec = reads[r].result[i]
          /\ InputAsStored(cap[c].rec, cap[c].data, cap[c].impl)

\* C13 as stated: after a put of r and before any delete, getAll holds exactly
\* one new record, equal to r plus an assigned id and a capture timestamp, and
\* returns every earlier record unchanged.
C13_RoundTripExact ==
  [][\A c \in Captures :
       PutResolves(c) =>
         /\ Range(getAll(store)) \subseteq Range(getAll(store'))
         /\ \E x \in Range(getAll(store')) :
              /\ Range(getAll(store')) \ Range(getAll(store)) = {x}
              /\ InputPlusIdAndTimestamp(x, cap[c].data)]_vars

\* C13 amended: after a put of r and before any delete, getAll holds exactly one
\* new record, which carries r unchanged (spread at top level with pendingSync:
\* true by storeForOffline, under data by storeSubmission) plus an assigned id
\* and a capture timestamp, and returns every earlier record unchanged; what
\* getOfflineData resolves with is made of such records.
C13_RoundTrip ==
  /\ []ReadReturnsPutRecords
  /\ [][\A c \in Captures :
          PutResolves(c) =>
            /\ Range(getAll(store)) \subseteq Range(getAll(store'))
            /\ \E x \in Range(getAll(store')) :
                 /\ Range(getAll(store')) \ Range(getAll(store)) = {x}
                 /\ InputAsStored(x, cap[c].data, cap[c].impl)]_vars

\* getOfflineData resolved with two records, one put by storeForOffline and one
\* by storeSubmission
C13_Witness ==
  \E r \in Reads :
    /\ reads[r].status = "resolved"
    /\ Len(reads[r].result) = 2
    /\ \E c, d \in Captures :
         /\ cap[c].impl = "idb" /\ cap[c].rec = reads[r].result[1]
         /\ cap[d].impl = "sw" /\ cap[d].rec = reads[r].result[2]

\* the key pass p is deleting
Deleting(p) == pass[p].snapshot[pass[p].idx].id

\* C14: a delete removes the record with the given id and no other; a delete of
\* an id that is absent succeeds like any other and leaves the queue as it was.
C14_DeleteIdempotent ==
  [][\A p \in Passes :
       (pass[p].pc = "remove" /\ pass'[p] # pass[p]) =>
         /\ store' \subseteq store
         /\ \A r \in store \ store' : r.id = Deleting(p)
         /\ Deleting(p) \notin Ids(store) => store' = store
         /\ Len(notifications'[p]) > Len(notifications[p]) => Deleting(p) \notin Ids(store')]_vars

\* two passes deleted the same id with success, the second when the record was
\* already gone, and the queue still holds its other record
C14_Witness ==
  \E p, q \in Passes :
    /\ p # q
    /\ \E i \in 1..Len(inserted) :
         /\ Notified(p, inserted[i]) = 1 /\ Notified(q, inserted[i]) = 1
         /\ inserted[i] \notin Ids(store)
    /\ store # {}

\* once the database has been opened it holds the three object stores
OpenedHasPartitions == dbVersion = DBVersion => objectStores = DBStores

\* an open request of some caller settles in this step
OpenSettles ==
  \/ \E c \in Captures : cap[c].pc \in {"open", "swOpen"} /\ cap'[c] # cap[c]
  \/ \E p \in Passes : pass[p].pc = "open" /\ pass'[p] # pass[p]
  \/ \E r \in Reads : reads[r].pc = "open" /\ reads'[r] # reads[r]

\* an open changes no record, and nothing at all of a database that exists
OpenChangesNoRecord ==
  OpenSettles =>
    /\ UNCHANGED <<store, nextId, inserted>>
    /\ dbVersion = DBVersion => UNCHANGED <<dbVersion, objectStores>>

\* C15: after any sequence of opens by openDatabase, storeForOffline and
\* getOfflineData, in any order, the database holds the three object stores, so
\* that a later put into pendingSubmissions finds its store; an open of an
\* existing database changes no record.
C15_OpenCreatesPartitions == []OpenedHasPartitions /\ [][OpenChangesNoRecord]_vars

\* a reader that finds no object store pendingSubmissions gets [] and no error
ReadersTolerateMissing ==
  /\ \A r \in Reads :
       reads[r].missing => (reads[r].status = "resolved" /\ reads[r].result = <<>>)
  /\ \A p \in Passes : pass[p].thrown = "none"

\* the getAll of a reader settles in this step
ReadSettles ==
  \/ \E r \in Reads : reads[r].pc = "getAll" /\ reads'[r] # reads[r]
  \/ \E p \in Passes : pass[p].pc = "getAll" /\ pass'[p] # pass[p]

\* C16: getAll on an object store that does not exist gives an empty sequence
\* and no error, in getOfflineData and in getPendingSubmissions alike, and a
\* getAll never changes the store.
C16_GetAllOfMissingIsEmpty ==
  []ReadersTolerateMissing /\ [][ReadSettles => UNCHANGED dbVars]_vars

\* fetch event f is for a same-origin request under /api/
IsApiFetch(f) ==
  /\ req[f].pc # "idle"
  /\ Url(f).origin = Location
  /\ isApiRequest(Url(f))

\* C17: a request under /api/ goes to the network first; when the network
\* fails the caller gets the synthesized 503 response with a JSON body holding
\* "error", never a rejection; no API response is read from or written to the
\* cache.
C17_ApiNetworkFirst ==
  /\ \A f \in Fetches :
       IsApiFetch(f) =>
         /\ req[f].netFetches = 1
         /\ ~req[f].cacheRead
         /\ req[f].put = "none"
         /\ req[f].pc = "done" =>
              /\ req[f].net = "ok" => req[f].served = NetworkResponse(Url(f))
              /\ req[f].net = "fail" =>
                   /\ req[f].served.source = "synthesized"
                   /\ req[f].served.status = 503
                   /\ req[f].served.body = "error"
  /\ \A n \in DOMAIN caches : \A u \in caches[n] : ~isApiRequest(u)

\* a request for /api/export.json was answered with the 503 response after its
\* fetch failed
C17_Witness ==
  \E f \in Fetches :
    /\ IsApiFetch(f)
    /\ Url(f).pathname = ApiJsonPath
    /\ req[f].pc = "done"
    /\ req[f].net = "fail"
    /\ req[f].served = OfflineResponse

\* the policy the order cross-origin, API, static asset, navigation, default
\* gives request q
FirstMatch(q) ==
  CASE q.url.origin # Location -> "passthrough"
    [] q.url.origin = Location /\ isApiRequest(q.url) -> "api"
    [] q.url.origin = Location /\ ~isApiRequest(q.url) /\ isStaticAsset(q.url) -> "static"
    [] q.url.origin = Location /\ ~isApiRequest(q.url) /\ ~isStaticAsset(q.url)
         /\ q.mode = "navigate" -> "navigate"
    [] OTHER -> "default"

\* the awaits of each policy
StepsOf(branch) ==
  CASE branch = "passthrough" -> {"done"}
    [] branch = "api" -> {"apiFetch", "done"}
    [] branch = "static" -> {"staticMatch", "staticFetch", "done"}
    [] branch = "navigate" -> {"navFetch", "navMatch", "navShell", "done"}
    [] branch = "default" -> {"defaultMatch", "defaultFetch", "done"}

\* C18: every request gets exactly one policy, the first that matches in the
\* order cross-origin, API, static asset, navigation, default.  A cross-origin
\* request is left to the browser: no response of the worker, no fetch by it, no
\* cache read or write.  A same-origin path under /api/ that ends in a static
\* extension is handled as API and not cached; a navigation to a path with a
\* static extension is handled as static asset.
C18_OnePolicyFirstMatch ==
  \A f \in Fetches :
    req[f].pc # "idle" =>
      /\ req[f].policy = FirstMatch(req[f].request)
      /\ req[f].pc \in StepsOf(FirstMatch(req[f].request))
      /\ Url(f).origin # Location =>
           /\ req[f].served = Passthrough
           /\ req[f].netFetches = 0 /\ ~req[f].cacheRead /\ req[f].put = "none"
      /\ (Url(f).origin = Location /\ Url(f).pathname = ApiJsonPath) =>
           /\ req[f].policy = "api"
           /\ ~req[f].cacheRead /\ req[f].put = "none"
           /\ \A n \in DOMAIN caches : Url(f) \notin caches[n]
      /\ (Url(f).origin = Location /\ Url(f).pathname = ScriptPath
            /\ req[f].request.mode = "navigate") => req[f].policy = "static"

\* a navigation to /app.js answered by the static policy and a request for
\* /api/export.json answered by the API policy
C18_Witness ==
  \E f, g \in Fetches :
    /\ req[f].pc = "done" /\ req[g].pc = "done"
    /\ Url(f) = sameOrigin(ScriptPath) /\ req[f].request.mode = "navigate"
    /\ req[f].policy = "static" /\ req[f].cacheRead
    /\ Url(g) = sameOrigin(ApiJsonPath) /\ req[g].policy = "api"

\* fetch event f was handled by the static-asset policy and has its response
StaticServed(f) ==
  /\ req[f].pc = "done"
  /\ req[f].policy = "static"
  /\ req[f].served.source \in {"cache", "network"}

\* C19: a static asset that is cached is returned without a network fetch; one
\* that is not is fetched and stored in the cache before the response is
\* returned: when the caller has the response of a miss the cache holds the
\* entry, and a later request for the same asset makes no network fetch.
C19_StaticCacheFirst ==
  \A f \in Fetches :
    StaticServed(f) =>
      /\ req[f].served.source = "cache" => req[f].netFetches = 0
      /\ req[f].served.source = "network" => Url(f) \in entries(CACHE_NAME)
      /\ \A g \in Fetches :
           (f \in req[g].doneBefore /\ Url(g) = Url(f) /\ req[g].policy = "static")
             => req[g].netFetches = 0

\* the answer the navigation fallback chain owes request f: the network
\* response, else the cached response for the request, else /index.html
FallbackChain(f) ==
  /\ req[f].served.source \in {"network", "cache"}
  /\ req[f].net = "ok" => req[f].served = NetworkResponse(Url(f))
  /\ req[f].net = "fail" =>
       IF cachesMatch(Url(f))
       THEN req[f].served = CachedResponse(Url(f))
       ELSE req[f].served = CachedResponse(sameOrigin(IndexPath))

\* C20 as stated: every navigation request handled by the installed worker gets
\* a response: the network response if the network succeeds, else the cached
\* response for the request, else /index.html; none resolves to no response.
C20_NavigationAlwaysAnswered ==
  \A f \in Fetches :
    (req[f].pc = "done" /\ Url(f).origin = Location /\ req[f].request.mode = "navigate")
      => (req[f].net # "none" /\ FallbackChain(f))

\* C20 amended: every navigation request that reaches the navigation policy
\* (same origin, not under /api/, no static-asset extension) gets a response:
\* the network response if the network succeeds, else the cached response for
\* the request, else /index.html; none resolves to no response.
C20_NavigationPolicyAlwaysAnswered ==
  \A f \in Fetches :
    ( /\ req[f].pc = "done" /\ Url(f).origin = Location /\ req[f].request.mode = "navigate"
      /\ ~isApiRequest(Url(f)) /\ ~isStaticAsset(Url(f)) )
      => (req[f].net # "none" /\ FallbackChain(f))

\* a navigation to /dashboard whose fetch failed was answered with the cached
\* /index.html
C20_Witness ==
  \E f \in Fetches :
    /\ req[f].pc = "done"
    /\ req[f].request = [url |-> sameOrigin(PagePath), mode |-> "navigate"]
    /\ req[f].net = "fail"
    /\ req[f].served = CachedResponse(sameOrigin(IndexPath))

\* the caches an installed worker has: the current one holds the shell assets,
\* and after activation it is the only one
SingleVersion ==
  /\ swState \in {"installed", "activating", "activated"} =>
       (CACHE_NAME \in DOMAIN caches /\ CACHE_ASSETS \subseteq caches[CACHE_NAME])
  /\ swState = "activated" => DOMAIN caches = {CACHE_NAME}

\* the install event writes into the cache CACHE_NAME only
InstallFillsCurrentOnly ==
  swState = "installing" =>
    /\ DOMAIN caches' \subseteq DOMAIN caches \cup {CACHE_NAME}
    /\ \A n \in DOMAIN caches \ {CACHE_NAME} : n \in DOMAIN caches' /\ caches'[n] = caches[n]

\* C21: install puts the shell assets into the one cache named CACHE_NAME; once
\* activation has completed every cache of another name is deleted and the
\* current cache with its shell assets is kept; no fetch handled afterwards
\* creates a cache under another name.
C21_SingleVersionRetention == []SingleVersion /\ [][InstallFillsCurrentOnly]_vars

\* the worker is activated, the cache of the earlier version is gone and the
\* current cache has taken an asset from a fetch besides its shell assets
C21_Witness ==
  /\ swState = "activated"
  /\ OldCacheName \notin DOMAIN caches
  /\ CACHE_ASSETS \subseteq entries(CACHE_NAME)
  /\ sameOrigin(ScriptPath) \in entries(CACHE_NAME)

\* ------------------------------------------------------------------ C22
\* the role of the account with id uid ("none" for a request without a session)
roleOf(uid) == IF uid = 0 THEN "none" ELSE (CHOOSE a \in Users : a.id = uid).role

\* the roles allowed to create, update and delete papers, to create a submission and to
\* create a comment
Allowed(route) ==
  CASE route \in {"POST /api/question-papers", "PUT /api/question-papers/:id",
                  "DELETE /api/question-papers/:id"} -> {ADMIN}
    [] route = "POST /api/submissions" -> {STUDENT}
    [] route = "POST /api/submissions/:id/comments" -> {ASSESSOR}
    [] OTHER -> {ADMIN, STUDENT, ASSESSOR}

Succeeded(r) == r.status \in {200, 201, 204}

\* the request answered in this step was turned away as the roles require, and left the
\* stored data alone; it succeeded only for an allowed role
RoleGated ==
  /\ last'.user = 0 => (last'.status = 401 /\ UNCHANGED storageVars)
  /\ (last'.user # 0 /\ roleOf(last'.user) \notin Allowed(last'.route)) =>
       (last'.status = 403 /\ UNCHANGED storageVars)
  /\ Succeeded(last') => roleOf(last'.user) \in Allowed(last'.route)

KeptOrDeleted(r) == r \in store' \/ r.id \notin Ids(store')

\* the step settles the put of a capture whose data carries id
PutOf(id) ==
  \E c \in Captures :
    /\ cap[c].pc = "add" /\ cap'[c].pc = "done" /\ cap'[c].stored
    /\ hasId(cap[c].data) /\ cap[c].data.id = id

\* C23: a record of pendingSubmissions is never overwritten in place: a put never
\* replaces a record stored under the same id, the only change of a stored record is
\* its deletion
C23_RecordsImmutable == [][\A r \in store : KeptOrDeleted(r)]_vars

\* amended: a stored record changes only by deletion or by the put of data that carries
\* the record's id; a capture of data without an id and the sync pass leave it as it was
C23_ImmutableButForKeyedPut ==
  [][\A r \in store : KeptOrDeleted(r) \/ PutOf(r.id)]_vars

\* a capture of data without an id was stored while the record of an earlier capture
\* stayed as it was written, and a sync pass has deleted a record
C23_Witness ==
  /\ \E c, d \in Captures :
       /\ c < d /\ cap[c].stored /\ cap[d].stored /\ ~hasId(cap[d].data)
       /\ cap[c].rec \in store /\ cap[d].rec.id \notin Ids(store)
       /\ cap[d].rec.id # cap[c].rec.id
  /\ \E p \in Passes : Len(notifications[p]) > 0

\* ------------------------------------------------------------------ C24
\* no pass rejects, a pass that ended returned normally, and a pass that read the queue
\* and ended has attempted every record it read
Contained ==
  \A p \in Passes :
    /\ pass[p].promise # "rejected"
    /\ pass[p].pc = "done" => pass[p].promise = "fulfilled"
    /\ (pass[p].pc = "done" /\ pass[p].read) => Len(attempts[p]) = Len(pass[p].snapshot)

\* a record leaves the queue only after a delivery of it was answered 2xx
OnlyAckedLeave == \A r \in store : r.id \notin Ids(store') => Acked(r.id)

\* C24: whatever fails in a sync pass (the open, the read of the queue, a delivery, a
\* delete), syncPendingSubmissions returns without rejecting, the queue keeps every
\* record that was not confirmed delivered, and the failure on one record does not keep
\* the remaining records from being attempted
C24_ErrorsContained == []Contained /\ [][OnlyAckedLeave]_vars

\* one pass ended on a failed open or read; another read two records, had the delete of
\* the first fail after its 2xx and the delivery of the second fail, attempted both and
\* ended normally with both records still queued
C24_Witness ==
  \E p, q \in Passes :
    /\ pass[q].pc = "done" /\ ~pass[q].read /\ pass[q].promise = "fulfilled"
    /\ pass[p].pc = "done" /\ pass[p].promise = "fulfilled"
    /\ Len(pass[p].snapshot) = 2 /\ Len(attempts[p]) = 2
    /\ attempts[p][1].resp = "2xx" /\ attempts[p][2].resp = "neterr"
    /\ {pass[p].snapshot[1].id, pass[p].snapshot[2].id} \subseteq Ids(store)

\* ------------------------------------------------------------------ C25
\* C25: with sync events that keep firing, store operations that do not fail for ever
\* and an endpoint that in the end answers 2xx for each record, every record put into
\* pendingSubmissions is eventually removed; a pass attempts every record it read, so
\* the failures of one record do not starve another
C25_QueueDrains ==
  /\ \A id \in 1..MaxCaptures : (id \in Ids(store)) ~> (id \notin Ids(store))
  /\ [](\A p \in Passes : (pass[p].pc = "done" /\ pass[p].read) =>
          {attempts[p][k].id : k \in 1..Len(attempts[p])} = pass[p].seen)

\* two records were put; one pass failed on the first and delivered the second after it,
\* a later pass delivered the first, and the queue is empty
C25_Witness ==
  /\ Len(inserted) = 2 /\ store = {}
  /\ \E p, q \in Passes :
       /\ p # q /\ pass[p].pc = "done" /\ pass[q].pc = "done"
       /\ Len(attempts[p]) = 2
       /\ attempts[p][1].resp \in Failures /\ attempts[p][2].resp = "2xx"
       /\ \E k \in 1..Len(attempts[q]) :
            attempts[q][k].id = attempts[p][1].id /\ attempts[q][k].resp = "2xx"

\* ------------------------------------------------------------------ C26
\* the student a record sent in a response belongs to: a submission's student, or the
\* student of the submission a comment is on
isSubmission(x) == "studentId" \in DOMAIN x
isComment(x) == "submissionId" \in DOMAIN x
ownerOf(x) ==
  IF isSubmission(x) THEN x.studentId
  ELSE (CHOOSE s \in answerSubmissions : s.id = x.submissionId).studentId

OneSubmissionRoutes == {"GET /api/submissions/:id", "GET /api/submissions/:id/comments"}

PostedSubmission == last'.route = "POST /api/submissions" /\ last' # last

\* what a step may do to the stored submissions: nothing, or store one for the calling
\* student, on a paper that exists, with status submitted
StoresOwnSubmission ==
  \/ answerSubmissions' = answerSubmissions
  \/ /\ PostedSubmission /\ last'.status = 201 /\ roleOf(last'.user) = STUDENT
     /\ \E s \in answerSubmissions' \ answerSubmissions :
          /\ answerSubmissions' = answerSubmissions \cup {s}
          /\ s.studentId = last'.user
          /\ s.questionPaperId = last'.body.questionPaperId
          /\ getQuestionPaper(s.questionPaperId) # {}
          /\ s.status = "submitted"

\* a student's request for a paper that does not exist is answered 404 and stores nothing
MissingPaperIs404 ==
  (PostedSubmission /\ roleOf(last'.user) = STUDENT /\
   getQuestionPaper(last'.body.questionPaperId) = {}) =>
     (last'.status = 404 /\ UNCHANGED storageVars)

\* C27: every submission stored through POST /api/submissions has the studentId of the
\* authenticated student who made the request, whatever studentId the body carries,
\* refers to a question paper that exists at that moment and has status submitted; a
\* request for a paper that does not exist is answered 404 and stores nothing
C27_SubmissionStoredForCaller == [][StoresOwnSubmission /\ MissingPaperIs404]_vars

\* ------------------------------------------------------------------ C28
\* the step handled a PUT /api/notifications/:id/read for notification id
MarkedBy(id) ==
  last'.route = "PUT /api/notifications/:id/read" /\ last'.id = id /\ last'.status = 204

\* the notification with this id after the step
after(n) == CHOOSE m \in userNotifications' : m.id = n.id

\* a notification stays stored; it becomes read only by a mark its owner sent, and once
\* read it stays read; a mark by a logged-in user is answered 204 for a stored
\* notification, read or not, and 404 for an unknown id, which changes nothing
MarkRules ==
  /\ \A n \in userNotifications :
       /\ n.id \in {m.id : m \in userNotifications'}
       /\ (~n.isRead /\ after(n).isRead) => (MarkedBy(n.id) /\ last'.user = n.userId)
       /\ n.isRead => after(n).isRead
  /\ (last'.route = "PUT /api/notifications/:id/read" /\ last' # last /\ last'.user # 0) =>
       IF \E n \in userNotifications : n.id = last'.id
       THEN last'.status = 204
       ELSE last'.status = 404 /\ UNCHANGED storageVars

PostedComment == last'.route = "POST /api/submissions/:id/comments" /\ last' # last

\* the step stored one comment, on the submission of the path and under the caller's id,
\* and one notification, unread and addressed to that submission's student
OneCommentOneNotification ==
  /\ \E c \in comments' \ comments :
       /\ comments' = comments \cup {c}
       /\ c.submissionId = last'.id
       /\ c.assessorId = last'.user
  /\ \E n \in userNotifications' \ userNotifications :
       /\ userNotifications' = userNotifications \cup {n}
       /\ ~n.isRead
       /\ \E s \in answerSubmissions : s.id = last'.id /\ n.userId = s.studentId

\* the step stored no comment and no notification
NothingCreated ==
  /\ comments' = comments
  /\ {n.id : n \in userNotifications'} = {n.id : n \in userNotifications}

CommentRules ==
  IF PostedComment /\ last'.status = 201
  THEN roleOf(last'.user) = ASSESSOR /\ OneCommentOneNotification
  ELSE NothingCreated

====
